---- MODULE Spec2Model ----
(***************************************************************************)
(* Model of the CSRC downloader (src/CSRC Downloader/csrc_downloader.py),  *)
(* of the threads the GUI and the scheduler start on it (gui_app.py,       *)
(* scheduler.py).                                                          *)
(*                                                                         *)
(* Strings are sequences of tokens: a token is a run of characters that no *)
(* test of the code splits ("xls", ".", "report").  A URL                   *)
(*     http://host/<dir>/<stem>[_<n>].<ext>[?<q>]                          *)
(* is the record [dir, stem, sep, n, ext, q]; n = 0 means "no <sep><n>      *)
(* part", sep is the separator before the number ("_", "", " ", "-").      *)
(***************************************************************************)
EXTENDS Integers, Sequences, FiniteSets, TLC

\* ---------------------------------------------------------------- bounds
\* Listing pages per section of the modelled site.
SitePages == 3
\* Page numbers of the URL chain are exact below MaxN; MaxN stands for
\* "some page number >= MaxN" (the chain common_list_N is unbounded).
MaxN == 5
\* The page counter is exact below MaxPage; MaxPage stands for ">= MaxPage".
MaxPage == 6
\* Largest page-count ceiling passed to run().
MaxCeil == 2
\* run() invocations in one behaviour.
MaxRuns == 2
\* Transient network/storage faults injected in one behaviour.
MaxFaults == 1

\* ------------------------------------------------------------------ URLs
NoneUrl == [dir |-> "", stem |-> "None", sep |-> "_", n |-> 0, ext |-> "", q |-> ""]

\* href="": an anchor whose href attribute is the empty string.
EmptyHref == [dir |-> "", stem |-> "", sep |-> "_", n |-> 0, ext |-> "", q |-> ""]

Url(d, s, n, e) == [dir |-> d, stem |-> s, sep |-> "_", n |-> n, ext |-> e, q |-> ""]

\* urljoin(base, href) for the absolute hrefs of the model and for href="".
urljoin(base, href) == IF href = EmptyHref THEN base ELSE href

Listing(d, n) == Url(d, "common_list", n, "shtml")
News(d, n) == Url(d, "news", n, "html")
Detail(d, n) == Url(d, "common_detail", n, "shtml")
File(d, n, e) == Url(d, "f", n, e)
More(d, n) == Url(d, "more", n, "shtml")
Annex(d, n) == Url(d, "annex", n, "shtml")

\* str.lower() on the tokens the model uses.
Lower(t) ==
    CASE t = "XLS" -> "xls"
      [] t = "CSV" -> "csv"
      [] t = "XLSX" -> "xlsx"
      [] t = "Disabled" -> "disabled"
      [] t = "Page" -> "page"
      [] t = "P" -> "p"
      [] t = "Index" -> "index"
      [] t = "INDEX" -> "index"
      [] OTHER -> t

\* full.split("/")[-1]: the last path segment of a URL, as tokens.
LastSegment(u) ==
    <<u.stem>> \o (IF u.n = 0 THEN <<>> ELSE <<u.sep, ToString(u.n)>>) \o <<".", u.ext>>
        \o (IF u.q = "" THEN <<>> ELSE <<"?", u.q>>)

\* ------------------------------------------------------ link classifier
DataExts == {"csv", "xls", "xlsx"}

\* re.search(r"\.(csv|xls|xlsx)$", href, re.I)
IsFileHref(h) == h.q = "" /\ Lower(h.ext) \in DataExts

\* "common_detail" in href or href.endswith(".shtml")
IsContentHref(h) == h.stem = "common_detail" \/ (h.q = "" /\ h.ext = "shtml")

IllegalChars == {"\\", "/", ":", "*", "?", "\"", "<", ">", "|"}

\* re.sub(r"[\\/:*?\"<>|]", "_", s)
Sanitize(s) == [i \in DOMAIN s |-> IF s[i] \in IllegalChars THEN "_" ELSE s[i]]

\* text or full.split("/")[-1], sanitized
LinkName(a, page_url) ==
    Sanitize(IF a.text # <<>> THEN a.text ELSE LastSegment(urljoin(page_url, a.href)))

RECURSIVE FileLinks(_, _)
FileLinks(soup, page_url) ==
    IF soup = <<>> THEN <<>>
    ELSE (IF IsFileHref(Head(soup).href)
          THEN << [url |-> urljoin(page_url, Head(soup).href),
                   name |-> LinkName(Head(soup), page_url)] >>
          ELSE <<>>) \o FileLinks(Tail(soup), page_url)

ContentLinks(soup, page_url) ==
    {urljoin(page_url, soup[i].href) : i \in {j \in DOMAIN soup :
        ~IsFileHref(soup[j].href) /\ IsContentHref(soup[j].href)}}

extract_links(soup, page_url) ==
    [files |-> FileLinks(soup, page_url), contents |-> ContentLinks(soup, page_url)]

\* ------------------------------------------------------------- documents
Anchor(h, t, c, o) == [href |-> h, text |-> t, class |-> c, onclick |-> o, pager |-> FALSE]

\* Page numbers of the listing pages of a section: common_list.shtml (0),
\* common_list_2.shtml .. common_list_<SitePages>.shtml.
ChainPages == {0} \cup (2..SitePages)
NewsPages == 1..SitePages

LastChain == IF SitePages >= 2 THEN SitePages ELSE 0

\* Section A: URL-pattern pagination, no next anchor.
DocA(n) ==
    << Anchor(File("A", 10 * n + 1, "xls"), <<>>, <<>>, ""),
       Anchor(File("A", 10 * n + 2, "xls"), <<"report">>, <<>>, ""),
       Anchor(Detail("A", n), <<"detail">>, <<>>, ""),
       Anchor(More("A", n), <<"more">>, <<>>, "") >>

DocDetailA(n) ==
    << Anchor(File("A", 10 * n + 3, "csv"), <<"table", ".", "csv">>, <<>>, ""),
       Anchor(Listing("A", 0), <<"back">>, <<>>, "") >>

\* A second content page of a listing page: no file, one content link.
DocMoreA(n) == << Anchor(Annex("A", n), <<"annex">>, <<>>, "") >>

\* Section B: next-button pagination whose last page links back to the first.
DocB(n) ==
    << Anchor(File("B", 10 * n + 1, "csv"), <<>>, <<>>, ""),
       Anchor(File("B", 10 * n + 2, "XLS"), <<>>, <<>>, ""),
       Anchor(News("B", IF n = SitePages THEN 1 ELSE n + 1), <<"next">>, <<>>, "") >>

\* Section D: next-button pagination on common_list URLs; the next anchor of
\* the last page is disabled and a last-page anchor points to the last page.
DocD(n) ==
    << Anchor(File("D", 10 * n + 1, "xlsx"), <<"data", ".", "xlsx">>, <<>>, ""),
       Anchor(Listing("D", IF n = 0 THEN 2 ELSE n + 1), <<"next">>,
              IF n = LastChain THEN <<"btn", "Disabled">> ELSE <<"btn">>, ""),
       Anchor(Listing("D", LastChain), <<"last">>, <<>>, "") >>

\* Section C: a single page, no pagination.
DocC ==
    << Anchor(File("C", 1, "csv"), <<"a", "/", "b">>, <<>>, ""),
       Anchor(Url("C", "about", 0, "html"), <<"about">>, <<>>, "") >>

ListingUrls ==
    {Listing("A", n) : n \in ChainPages} \cup {News("B", n) : n \in NewsPages}
        \cup {Listing("D", n) : n \in ChainPages} \cup {Url("C", "about", 0, "html")}

DetailUrls == {Detail("A", n) : n \in ChainPages} \cup {More("A", n) : n \in ChainPages}

\* Pages linked from content pages only.
AnnexUrls == {Annex("A", n) : n \in ChainPages}

PageUrls == ListingUrls \cup DetailUrls \cup AnnexUrls

\* The document the server holds at a URL.
Doc(u) ==
    CASE u.dir = "A" /\ u.stem = "common_list" -> DocA(u.n)
      [] u.dir = "A" /\ u.stem = "common_detail" -> DocDetailA(u.n)
      [] u.dir = "A" /\ u.stem = "more" -> DocMoreA(u.n)
      [] u.dir = "A" /\ u.stem = "annex" -> <<>>
      [] u.dir = "B" -> DocB(u.n)
      [] u.dir = "D" -> DocD(u.n)
      [] OTHER -> DocC

FileUrls ==
    UNION {{Doc(p)[i].href : i \in {j \in DOMAIN Doc(p) : IsFileHref(Doc(p)[j].href)}}
             : p \in PageUrls}

\* Whether the server answers 200 for a URL.
Exists(u) == u \in PageUrls \cup FileUrls

BaseUrls == {Listing("A", 0), News("B", 1), Listing("D", 0), Url("C", "about", 0, "html")}

\* -------------------------------------------------------- download store
\* set(f.read_text().splitlines()): the record is the sequence of its lines.
_load_downloaded(rec) == {rec[i] : i \in DOMAIN rec}

\* A character str.splitlines() breaks a line at and urljoin keeps (U+2028),
\* standing between the stem and the number of a URL.
LineSep == "<LS>"

\* (url + "\n").splitlines(): the lines the record holds for url once written.
splitlines(url) ==
    IF url.sep = LineSep /\ url.n > 0
    THEN << [url EXCEPT !.sep = "_", !.n = 0, !.ext = "", !.q = ""],
            [dir |-> "", stem |-> "", sep |-> "_", n |-> url.n, ext |-> url.ext,
             q |-> url.q] >>
    ELSE <<url>>

\* fp.write(url + "\n"), then self.downloaded.add(url).
_save_downloaded(dl, rec, url) ==
    [record |-> rec \o splitlines(url), downloaded |-> dl \cup {url}]

\* any(name.endswith(ext) for ext in ['csv', 'xls', 'xlsx'])
valid_names(name) == name # <<>> /\ name[Len(name)] \in DataExts

DownloadOutcomes == {"ok", "request_error", "status_error", "write_error", "record_error"}

\* download() with _save_downloaded moved before the writing of the stream.
download_marks_first(dl, rec, url, name, outcome) ==
    IF url \in dl /\ valid_names(name)
    THEN [downloaded |-> dl, record |-> rec,
          requested |-> FALSE, stored |-> FALSE, raised |-> FALSE]
    ELSE IF outcome \in {"ok", "write_error"}
    THEN [downloaded |-> _save_downloaded(dl, rec, url).downloaded,
          record |-> _save_downloaded(dl, rec, url).record,
          requested |-> TRUE, stored |-> (outcome = "ok"), raised |-> (outcome # "ok")]
    ELSE [downloaded |-> dl, record |-> rec,
          requested |-> TRUE, stored |-> (outcome = "record_error"), raised |-> TRUE]

\* download(url, name) on an instance whose set is dl and whose durable record is
\* rec, when the network and the disk answer `outcome`.  requested: session.get
\* was issued; stored: the whole stream was written; raised: an exception left
\* download().
download(dl, rec, url, name, outcome) ==
    IF url \in dl /\ valid_names(name)
    THEN [downloaded |-> dl, record |-> rec,
          requested |-> FALSE, stored |-> FALSE, raised |-> FALSE]
    ELSE IF outcome = "ok"
    THEN [downloaded |-> _save_downloaded(dl, rec, url).downloaded,
          record |-> _save_downloaded(dl, rec, url).record,
          requested |-> TRUE, stored |-> TRUE, raised |-> FALSE]
    ELSE [downloaded |-> dl, record |-> rec,
          requested |-> TRUE, stored |-> (outcome = "record_error"), raised |-> TRUE]

\* ----------------------------------------------------- pagination oracle
\* "下一页", "下页", "next", "Next", ">", "»" (the two Chinese texts as xiayiye, xiaye)
NextTexts == {"xiayiye", "xiaye", "next", "Next", ">", ">>"}
\* "最后一页", "末页", "last", "Last" (zuihouyiye, moye)
LastPageTexts == {"zuihouyiye", "moye", "last", "Last"}

HasText(text, vocabulary) == \E i \in DOMAIN text : text[i] \in vocabulary

\* a.get("class") and any("disabled" in str(c).lower() ...), or "disabled" in onclick
IsDisabled(a) ==
    \/ \E i \in DOMAIN a.class : Lower(a.class[i]) = "disabled"
    \/ Lower(a.onclick) = "disabled"

EnabledNext(soup) ==
    {i \in DOMAIN soup : HasText(soup[i].text, NextTexts) /\ ~IsDisabled(soup[i])}

Min(a, b) == IF a < b THEN a ELSE b

\* The separators [_\s]* matches between the word and the number.
RegexSeps == {"_", "", " "}

\* All four patterns are searched with re.I.
_has_url_pagination_pattern(url) ==
    \/ /\ Lower(url.stem) = "common_list" /\ Lower(url.ext) = "shtml"
       /\ (url.n = 0 \/ url.sep = "_")
    \/ /\ Lower(url.stem) \in {"page", "p", "index"}
       /\ url.n > 0 /\ url.sep \in RegexSeps

\* Patterns 1 and 2 are case-sensitive; 3 and 4 are searched with re.I.
\* Pattern 3 writes the matched prefix back, pattern 4 writes "index_".
generate_next_url(current_url) ==
    IF current_url.stem = "common_list" /\ current_url.n = 0
       /\ current_url.ext = "shtml" /\ current_url.q = ""
    THEN [current_url EXCEPT !.n = 2, !.sep = "_"]
    ELSE IF current_url.stem = "common_list" /\ current_url.n > 0
            /\ current_url.sep = "_" /\ current_url.ext = "shtml"
    THEN [current_url EXCEPT !.n = Min(@ + 1, MaxN)]
    ELSE IF Lower(current_url.stem) \in {"page", "p"} /\ current_url.n > 0
            /\ current_url.sep \in RegexSeps
    THEN [current_url EXCEPT !.n = Min(@ + 1, MaxN)]
    ELSE IF Lower(current_url.stem) = "index" /\ current_url.n > 0
            /\ current_url.sep \in RegexSeps
    THEN [current_url EXCEPT !.n = Min(@ + 1, MaxN), !.stem = "index", !.sep = "_"]
    ELSE NoneUrl

\* url_exists: HEAD, then a streamed GET if HEAD raised; head and get are the
\* answers "200", "404" or "exc" (the request raised).
url_exists(head, get) ==
    IF head # "exc" THEN head = "200"
    ELSE IF get # "exc" THEN get = "200"
    ELSE FALSE

DigitTexts == {"1", "2", "3", "4", "5"}

\* Documents of the model hold at most five anchors, so links[:5] is all of them.
find_all_pagination_links(soup, current_url) ==
    {urljoin(current_url, soup[i].href) : i \in {j \in DOMAIN soup :
        \/ soup[j].pager /\ soup[j].href # EmptyHref
        \/ /\ Len(soup[j].text) = 1 /\ soup[j].text[1] \in DigitTexts
           /\ _has_url_pagination_pattern(soup[j].href)}}

\* Variant: the URL rule is tried before the button rule.
detect_url_first(soup, current_url, probe) ==
    IF /\ _has_url_pagination_pattern(current_url)
       /\ generate_next_url(current_url) # NoneUrl
       /\ probe
    THEN "url"
    ELSE IF EnabledNext(soup) # {} THEN "button"
    ELSE IF \E l \in find_all_pagination_links(soup, current_url) :
                _has_url_pagination_pattern(l)
    THEN "url"
    ELSE "None"

\* probe: the answer of url_exists(next_url), asked only when rule 2 reaches it.
detect_pagination_mode(soup, current_url, probe) ==
    IF EnabledNext(soup) # {} THEN "button"
    ELSE IF /\ _has_url_pagination_pattern(current_url)
            /\ generate_next_url(current_url) # NoneUrl
            /\ probe
    THEN "url"
    ELSE IF \E l \in find_all_pagination_links(soup, current_url) :
                _has_url_pagination_pattern(l)
    THEN "url"
    ELSE "None"

\* The first enabled next anchor whose href is not empty (line 133).
find_next_button(soup, current_url) ==
    LET S == {i \in EnabledNext(soup) : soup[i].href # EmptyHref} IN
    IF S = {} THEN NoneUrl
    ELSE urljoin(current_url, soup[CHOOSE i \in S : \A j \in S : i <= j].href)

\* urlparse(url1).path == urlparse(url2).path
_urls_match(url1, url2) == [url1 EXCEPT !.q = ""] = [url2 EXCEPT !.q = ""]

is_last_page(soup, current_url, pagination_mode, probe) ==
    IF pagination_mode = "button"
    THEN \/ \E i \in DOMAIN soup :
               /\ HasText(soup[i].text, LastPageTexts)
               /\ soup[i].href # EmptyHref
               /\ \/ urljoin(current_url, soup[i].href) = current_url
                  \/ _urls_match(urljoin(current_url, soup[i].href), current_url)
         \/ EnabledNext(soup) = {}
    ELSE IF pagination_mode = "url"
    THEN IF generate_next_url(current_url) # NoneUrl THEN ~probe ELSE TRUE
    ELSE TRUE

smart_next(soup, current_url, pagination_mode, probe) ==
    IF pagination_mode = "button" THEN find_next_button(soup, current_url)
    ELSE IF pagination_mode = "url"
    THEN IF generate_next_url(current_url) # NoneUrl /\ probe
         THEN generate_next_url(current_url) ELSE NoneUrl
    ELSE NoneUrl

\* ------------------------------------------------------------ the state
VARIABLES
    base_url,         \* self.base_url
    record,           \* downloaded_files.txt, the sequence of its lines
    downloaded,       \* self.downloaded
    pc,               \* position inside run(): ready, loop, fetch, files,
                      \* contents, cfiles, except, done
    current, visited, page, max_pages, pagination_mode,   \* locals of run()
    files,            \* file links of the listing page not yet iterated
    contents,         \* content links of the listing page not yet iterated
    cfiles,           \* file links of the content page not yet iterated
    runs,             \* run() invocations so far
    faults,           \* transient faults injected so far
    hist,             \* observations of the current run (see Hist0)
    threads,          \* the threads App.start and the scheduler started
    mem,              \* self.downloaded of each instance those threads run on
    pure              \* one call of a function of the oracle, the classifier
                      \* or the store: its arguments and its result

vars == <<base_url, record, downloaded, pc, current, visited, page, max_pages,
          pagination_mode, files, contents, cfiles, runs, faults, hist, threads, mem,
          pure>>

runvars == <<current, visited, page, max_pages, pagination_mode>>

\* Threads started on one download directory.
NThreads == 2
Threads == 1..NThreads

\* No call yet.
PureIdle ==
    [op |-> "none", soup |-> <<>>, url |-> NoneUrl, mode |-> "None", probe |-> FALSE,
     known |-> FALSE, name |-> <<>>, outcome |-> "ok",
     outMode |-> "None", outBool |-> FALSE, outUrl |-> NoneUrl,
     outLinks |-> [files |-> <<>>, contents |-> {}],
     outDl |-> [downloaded |-> {}, record |-> <<>>,
                requested |-> FALSE, stored |-> FALSE, raised |-> FALSE]]

IdleThread == [pc |-> "idle", inst |-> 0, todo |-> <<>>, readAbsent |-> FALSE, saved |-> {}]

\* max_pages=None
NoCeiling == -1
Ceilings == {NoCeiling} \cup (0..MaxCeil)

\* What a run is observed to do; none of it is read by the program.
Hist0 ==
    [ listingFetches |-> 0,     \* listing fetches issued (exact below MaxPage)
      tried |-> {},             \* listing URLs a listing fetch was issued for
      fetchedOk |-> {},         \* listing pages fetched successfully
      contentTried |-> {},      \* content pages a fetch was issued for
      refetched |-> {},         \* listing URLs fetched again after a first fetch
      attempted |-> {},         \* file URLs download() was called with
      transfers |-> {},         \* file URLs whose stream was written
      requestedKnown |-> {},    \* URLs requested while in self.downloaded
      failed |-> {},            \* file URLs whose download raised
      call |-> [k |-> 0, url |-> NoneUrl, known |-> FALSE, requested |-> FALSE,
                stored |-> FALSE, raised |-> FALSE],   \* the last download() call
      detects |-> 0,            \* calls of detect_pagination_mode
      detectedOn |-> NoneUrl,   \* the page of the first call
      firstMode |-> "unset",    \* its first result
      cause |-> "none",         \* what raised into the except branch of run()
      recovered |-> "none",     \* cause of the last exception the loop continued after
      skipped |-> {},           \* content pages whose processing raised
      pageFailed |-> FALSE,     \* a content page of the current listing page raised
      afterFailure |-> {},      \* content pages fetched after such a failure
      passedAfterFailure |-> FALSE, \* lines 333-347 ran on a page with such a failure
      paginated |-> {},         \* pages the pagination oracle was evaluated on
      silent |-> FALSE,         \* an exception was caught and nothing was logged
      visitedCount |-> 0,       \* len(visited), fresh URLs included (exact below MaxPage)
      endReason |-> "none",
      firstComplete |-> FALSE,  \* the previous run was unbounded, fault-free and ended
      retried |-> {} ]          \* URLs that failed in the previous run

\* True in Python: max_pages is neither None nor 0.
Truthy(mp) == mp # NoCeiling /\ mp # 0

Init ==
    /\ base_url \in BaseUrls
    /\ record = <<>>
    /\ downloaded = _load_downloaded(<<>>)
    /\ pc = "ready"
    /\ current = NoneUrl /\ visited = {} /\ page = 1
    /\ max_pages = NoCeiling /\ pagination_mode = "None"
    /\ files = <<>> /\ contents = {} /\ cfiles = <<>>
    /\ runs = 0 /\ faults = 0
    /\ hist = Hist0
    /\ threads = [t \in Threads |-> IdleThread]
    /\ mem = [t \in Threads |-> {}]
    /\ pure = PureIdle

\* ----------------------------------------------------------- the network
\* The answers a request for u can get now: the server's, or a transient fault.
Answers(u, f) ==
    (IF Exists(u) THEN {"200"} ELSE {"404"}) \cup (IF f < MaxFaults THEN {"exc"} ELSE {})

Cost(answers) == IF "exc" \in answers THEN 1 ELSE 0

\* ------------------------------------------------------------------ run()
\* The exception a failed request raises: a timeout or a connection error, or
\* raise_for_status() on a non-2xx answer.
ExcOf(answer) == IF answer = "exc" THEN "request_error" ELSE "status_error"

\* A handler for network errors only.
Caught_requests_only(exc) == exc \in {"request_error", "status_error"}

\* except Exception, lines 329 and 349: every exception of the model is one.
Caught(exc) == TRUE

\* Without the try of line 323: a failing content page leaves for line 349.
ContentHandler_outer(exc) == IF Caught(exc) THEN "except" ELSE "raised"

\* Where control goes when processing a content page raises: line 329 catches
\* it and the for loop of line 322 goes on.
ContentHandler(exc) == IF Caught(exc) THEN "contents" ELSE "raised"

\* Where control goes when line 305 or line 319 raises.
PageHandler(exc) == IF Caught(exc) THEN "except" ELSE "raised"

\* Whether a handler writes a log event: logger.warning at line 330,
\* logger.error at line 350; the handlers of url_exists (lines 204, 209) log
\* nothing.
Logged(handler) == handler \in {"content", "page"}

\* The content links of a content page, followed.
Nested_followed(links) == links.contents

\* fs, _ = self.extract_links(s, c), line 325: the content links of a content
\* page are discarded.
Nested(links) == {}

\* __init__ of a new instance on the same download directory (App.start).
Construct ==
    /\ pc = "done"
    /\ downloaded' = _load_downloaded(record)
    /\ pc' = "ready"
    /\ UNCHANGED <<pure, threads, mem, base_url, record, runvars, files, contents, cfiles, runs, faults, hist>>

\* run(max_pages): lines 286-291.
Run(mp) ==
    /\ pc \in {"ready", "done"}
    /\ runs < MaxRuns
    /\ runs' = runs + 1
    /\ current' = base_url
    /\ visited' = {}
    /\ page' = 1
    /\ pagination_mode' = "None"
    /\ max_pages' = mp
    /\ pc' = "loop"
    /\ hist' = [Hist0 EXCEPT
                  !.firstComplete = (runs = 1 /\ max_pages = NoCeiling /\ pc = "done"
                                     /\ faults = 0 /\ mp = NoCeiling),
                  !.retried = hist.failed,
                  !.call = hist.call]
    /\ UNCHANGED <<pure, threads, mem, base_url, record, downloaded, files, contents, cfiles, faults>>

\* The head of the loop without the test of line 294.
LoopExit_unguarded(cur, vis, pg, mp) ==
    IF cur = NoneUrl THEN "no_successor"
    ELSE IF Truthy(mp) /\ pg > mp THEN "ceiling"
    ELSE "go"

\* The tests at the head of the while loop, lines 293-299: why the loop is
\* left, or "go".
LoopExit(cur, vis, pg, mp) ==
    IF cur = NoneUrl THEN "no_successor"
    ELSE IF cur \in vis THEN "loop_guard"
    ELSE IF Truthy(mp) /\ pg > mp THEN "ceiling"
    ELSE "go"

\* A URL of the chain at MaxN stands for a fresh URL each time: it is in no set.
Fresh(u) == u.stem \in {"common_list", "page", "p", "index"} /\ u.n >= MaxN

LoopHead ==
    /\ pc = "loop"
    /\ IF LoopExit(current, visited, page, max_pages) = "go"
       THEN /\ visited' = (IF Fresh(current) THEN visited ELSE visited \cup {current})
            /\ pc' = "fetch"
            /\ hist' = [hist EXCEPT !.visitedCount = Min(@ + 1, MaxPage)]
       ELSE /\ pc' = "done"
            /\ hist' = [hist EXCEPT !.endReason = LoopExit(current, visited, page, max_pages)]
            /\ UNCHANGED visited
    /\ UNCHANGED <<pure, threads, mem, base_url, record, downloaded, current, page, max_pages,
                   pagination_mode, files, contents, cfiles, runs, faults>>

NoteFetch(h, u) ==
    [h EXCEPT !.listingFetches = Min(@ + 1, MaxPage),
              !.tried = IF Fresh(u) THEN @ ELSE @ \cup {u},
              !.refetched = IF u \in h.tried THEN @ \cup {u} ELSE @]

\* Detection on every page.
NeedsDetection_always(mode) == TRUE

\* if pagination_mode is None, line 308.
NeedsDetection(mode) == mode = "None"

\* The answers of url_exists(u) when the budget of faults spent is f; asked
\* says whether the code reaches the call at all.
Probes(u, f, asked) ==
    IF asked
    THEN {[ans |-> url_exists(h, g), cost |-> Cost({h} \cup (IF h = "exc" THEN {g} ELSE {})),
           exc |-> h = "exc"]
            : h \in Answers(u, f), g \in Answers(u, f)}
    ELSE {[ans |-> FALSE, cost |-> 0, exc |-> FALSE]}

\* Whether detect_pagination_mode reaches url_exists (rule 2).
DetectProbes(soup, url) ==
    /\ EnabledNext(soup) = {}
    /\ _has_url_pagination_pattern(url)
    /\ generate_next_url(url) # NoneUrl

\* self.fetch(current) raised, line 305.
FetchListingFail ==
    /\ pc = "fetch"
    /\ \E a \in Answers(current, faults) :
         /\ a # "200"
         /\ faults' = faults + Cost({a})
         /\ pc' = PageHandler(ExcOf(a))
    /\ hist' = [NoteFetch(hist, current) EXCEPT !.cause = "fetch",
                                                !.silent = @ \/ ~Logged("page")]
    /\ UNCHANGED <<pure, threads, mem, base_url, record, downloaded, runvars, files, contents, cfiles, runs>>

\* self.fetch(current) returned: mode detection and extract_links, lines 305-316.
FetchListing ==
    /\ pc = "fetch"
    /\ "200" \in Answers(current, faults)
    /\ LET soup == Doc(current)
           links == extract_links(soup, current)
       IN /\ IF NeedsDetection(pagination_mode)
             THEN \E p \in Probes(generate_next_url(current), faults,
                                  DetectProbes(soup, current)) :
                    /\ pagination_mode' = detect_pagination_mode(soup, current, p.ans)
                    /\ faults' = faults + p.cost
                    /\ hist' = [NoteFetch(hist, current) EXCEPT
                                  !.fetchedOk = @ \cup {current},
                                  !.pageFailed = FALSE,
                                  !.paginated = @ \cup {current},
                                  !.silent = @ \/ (p.exc /\ ~Logged("probe")),
                                  !.detects = Min(@ + 1, 2),
                                  !.detectedOn = IF hist.detects = 0 THEN current ELSE @,
                                  !.firstMode =
                                      IF hist.detects = 0
                                      THEN detect_pagination_mode(soup, current, p.ans)
                                      ELSE @]
             ELSE /\ UNCHANGED <<pagination_mode, faults>>
                  /\ hist' = [NoteFetch(hist, current) EXCEPT !.fetchedOk = @ \cup {current},
                                                              !.pageFailed = FALSE]
          /\ files' = links.files
          /\ contents' = links.contents
    /\ pc' = "files"
    /\ UNCHANGED <<pure, threads, mem, base_url, record, downloaded, current, visited, page, max_pages,
                   cfiles, runs>>

\* What the network and the disk can answer to a download of url.
Outcomes(url, f) ==
    (IF Exists(url) THEN {"ok"} ELSE {"status_error"})
        \cup (IF f < MaxFaults THEN DownloadOutcomes \ {"ok"} ELSE {})

FaultCost(url, o) ==
    IF o = "ok" \/ (o = "status_error" /\ ~Exists(url)) THEN 0 ELSE 1

NoteDownload(h, link, r) ==
    [h EXCEPT !.attempted = @ \cup {link.url},
              !.transfers = IF r.stored THEN @ \cup {link.url} ELSE @,
              !.requestedKnown = IF r.requested /\ link.url \in downloaded
                                 THEN @ \cup {link.url} ELSE @,
              !.failed = IF r.raised THEN @ \cup {link.url} ELSE @,
              !.call = [k |-> 1 - h.call.k, url |-> link.url,
                        known |-> link.url \in downloaded,
                        requested |-> r.requested, stored |-> r.stored,
                        raised |-> r.raised]]

\* One iteration of "for url, name in files", lines 318-320; an exception leaves
\* the try block for the except branch of line 349.
DownloadListingFile ==
    /\ pc = "files"
    /\ files # <<>>
    /\ LET link == Head(files) IN
       \E o \in Outcomes(link.url, faults) :
         LET r == download(downloaded, record, link.url, link.name, o) IN
         /\ r.requested \/ o = "ok"
         /\ faults' = faults + FaultCost(link.url, o)
         /\ downloaded' = r.downloaded
         /\ record' = r.record
         /\ IF r.raised
            THEN /\ pc' = PageHandler(o)
                 /\ hist' = [NoteDownload(hist, link, r) EXCEPT
                               !.cause = "download", !.silent = @ \/ ~Logged("page")]
                 /\ UNCHANGED files
            ELSE /\ pc' = "files"
                 /\ hist' = NoteDownload(hist, link, r)
                 /\ files' = Tail(files)
    /\ UNCHANGED <<pure, threads, mem, base_url, runvars, contents, cfiles, runs>>

\* The file loop is exhausted: on to "for c in contents", line 322.
FilesDone ==
    /\ pc = "files"
    /\ files = <<>>
    /\ pc' = "contents"
    /\ UNCHANGED <<pure, threads, mem, base_url, record, downloaded, runvars, files, contents, cfiles,
                   runs, faults, hist>>

\* s = self.fetch(c); fs, _ = self.extract_links(s, c), lines 324-325; a failed
\* fetch is caught at line 329 and the loop goes on.  list(set(contents)) has
\* no fixed order: any remaining content link may be next.
FetchContent ==
    /\ pc = "contents"
    /\ \E c \in contents :
         \E a \in Answers(c, faults) :
              /\ faults' = faults + Cost({a})
              /\ IF a = "200"
                 THEN /\ cfiles' = extract_links(Doc(c), c).files
                      /\ contents' = (contents \ {c}) \cup Nested(extract_links(Doc(c), c))
                      /\ pc' = "cfiles"
                      /\ hist' = [hist EXCEPT
                                    !.contentTried = @ \cup {c},
                                    !.afterFailure = IF hist.pageFailed THEN @ \cup {c} ELSE @]
                 ELSE /\ cfiles' = <<>>
                      /\ contents' = contents \ {c}
                      /\ pc' = ContentHandler(ExcOf(a))
                      /\ hist' = [hist EXCEPT
                                    !.contentTried = @ \cup {c},
                                    !.afterFailure = IF hist.pageFailed THEN @ \cup {c} ELSE @,
                                    !.skipped = @ \cup {c},
                                    !.pageFailed = TRUE,
                                    !.cause = IF ContentHandler(ExcOf(a)) = "except"
                                              THEN "content" ELSE @,
                                    !.silent = @ \/ ~Logged("content")]
    /\ UNCHANGED <<pure, threads, mem, base_url, record, downloaded, runvars, files, runs>>

\* One iteration of "for u, n in fs", lines 326-328; an exception is caught at
\* line 329, which abandons the rest of this content page.
DownloadContentFile ==
    /\ pc = "cfiles"
    /\ IF cfiles = <<>>
       THEN /\ pc' = "contents"
            /\ UNCHANGED <<record, downloaded, cfiles, faults, hist>>
       ELSE LET link == Head(cfiles) IN
            \E o \in Outcomes(link.url, faults) :
              LET r == download(downloaded, record, link.url, link.name, o) IN
              /\ r.requested \/ o = "ok"
              /\ faults' = faults + FaultCost(link.url, o)
              /\ downloaded' = r.downloaded
              /\ record' = r.record
              /\ IF r.raised
                 THEN /\ cfiles' = <<>>
                      /\ pc' = ContentHandler(o)
                      /\ hist' = [NoteDownload(hist, link, r) EXCEPT
                                    !.pageFailed = TRUE,
                                    !.cause = IF ContentHandler(o) = "except"
                                              THEN "content" ELSE @,
                                    !.silent = @ \/ ~Logged("content")]
                 ELSE /\ cfiles' = Tail(cfiles)
                      /\ pc' = "cfiles"
                      /\ hist' = NoteDownload(hist, link, r)
    /\ UNCHANGED <<pure, threads, mem, base_url, runvars, files, contents, runs>>

\* Terminal detection and advance, lines 333-347.
Paginate ==
    /\ pc = "contents"
    /\ contents = {}
    /\ LET soup == Doc(current)
           next == generate_next_url(current)
           asked == pagination_mode = "url" /\ next # NoneUrl
       IN IF pagination_mode # "None"
          THEN \E p1 \in Probes(next, faults, asked) :
                 IF is_last_page(soup, current, pagination_mode, p1.ans)
                 THEN /\ pc' = "done"
                      /\ faults' = faults + p1.cost
                      /\ hist' = [hist EXCEPT
                                    !.endReason = "terminal",
                                    !.paginated = @ \cup {current},
                                    !.passedAfterFailure = @ \/ hist.pageFailed,
                                    !.silent = @ \/ (p1.exc /\ ~Logged("probe"))]
                      /\ UNCHANGED <<current, page>>
                 ELSE \E p2 \in Probes(next, faults + p1.cost, asked) :
                        /\ current' = smart_next(soup, current, pagination_mode, p2.ans)
                        /\ page' = Min(page + 1, MaxPage)
                        /\ faults' = faults + p1.cost + p2.cost
                        /\ pc' = "loop"
                        /\ hist' = [hist EXCEPT
                                      !.paginated = @ \cup {current},
                                      !.passedAfterFailure = @ \/ hist.pageFailed,
                                      !.silent = @ \/ ((p1.exc \/ p2.exc)
                                                        /\ ~Logged("probe"))]
          ELSE /\ pc' = "done"
               /\ hist' = [hist EXCEPT !.endReason = "single",
                                       !.passedAfterFailure = @ \/ hist.pageFailed]
               /\ UNCHANGED <<current, page, faults>>
    /\ UNCHANGED <<pure, threads, mem, base_url, record, downloaded, visited, max_pages, pagination_mode,
                   files, contents, cfiles, runs>>

\* except Exception, lines 349-357.
Except ==
    /\ pc = "except"
    /\ IF pagination_mode = "url"
       THEN /\ current' = generate_next_url(current)
            /\ IF current' # NoneUrl /\ current' \notin visited
               THEN /\ page' = Min(page + 1, MaxPage)
                    /\ pc' = "loop"
                    /\ hist' = [hist EXCEPT !.recovered = hist.cause, !.cause = "none"]
               ELSE /\ pc' = "done"
                    /\ hist' = [hist EXCEPT !.endReason = "error"]
                    /\ UNCHANGED page
       ELSE /\ pc' = "done"
            /\ hist' = [hist EXCEPT !.endReason = "error"]
            /\ UNCHANGED <<current, page>>
    /\ files' = <<>> /\ contents' = {} /\ cfiles' = <<>>
    /\ UNCHANGED <<pure, threads, mem, base_url, record, downloaded, visited, max_pages, pagination_mode,
                   runs, faults>>

Next ==
    \/ Construct
    \/ \E mp \in Ceilings : Run(mp)
    \/ LoopHead
    \/ FetchListingFail
    \/ FetchListing
    \/ DownloadListingFile
    \/ FilesDone
    \/ FetchContent
    \/ DownloadContentFile
    \/ Paginate
    \/ Except

Spec == Init /\ [][Next]_vars

\* The interpreter runs a started run() to its end: no step of it waits on
\* anything but requests that time out (lines 40, 64, 202, 207).
FairSpec == Spec /\ WF_vars(Next)
\* ------------------------------------------------- concurrent downloads
seqvars == <<base_url, downloaded, pc, runvars, files, contents, cfiles, runs, faults,
             hist, pure>>

\* App.start, gui_app.py lines 44-49: a new thread constructs its own instance
\* (which loads the record) and runs it; the thread is followed from the file
\* loop of the first listing page on.
TStart(t) ==
    /\ threads[t].pc = "idle"
    /\ mem' = [mem EXCEPT ![t] = _load_downloaded(record)]
    /\ threads' = [threads EXCEPT ![t] =
                     [@ EXCEPT !.pc = "check", !.inst = t,
                               !.todo = extract_links(Doc(base_url), base_url).files]]
    /\ UNCHANGED <<seqvars, record>>

\* App.daily and DownloaderScheduler.start_daily, gui_app.py lines 51-56 and
\* scheduler.py lines 13-23: the scheduler thread runs self.downloader, the
\* instance the last App.start thread constructed.
TSchedule(t) ==
    /\ threads[t].pc = "idle"
    /\ \E o \in Threads \ {t} :
         /\ threads[o].inst = o
         /\ threads' = [threads EXCEPT ![t] =
                          [@ EXCEPT !.pc = "check", !.inst = o,
                                    !.todo = extract_links(Doc(base_url), base_url).files]]
    /\ UNCHANGED <<seqvars, record, mem>>

\* download(), lines 61-63: the dedup check.
TCheck(t) ==
    /\ threads[t].pc = "check"
    /\ IF threads[t].todo = <<>>
       THEN threads' = [threads EXCEPT ![t].pc = "end"]
       ELSE LET link == Head(threads[t].todo) IN
            IF link.url \in mem[threads[t].inst] /\ valid_names(link.name)
            THEN threads' = [threads EXCEPT ![t].todo = Tail(@)]
            ELSE threads' = [threads EXCEPT ![t].pc = "get",
                                            ![t].readAbsent = link.url \notin mem[threads[t].inst]]
    /\ UNCHANGED <<seqvars, record, mem>>

\* download(), lines 64-69: the request and the writing of the stream, during
\* which other threads run; a failure ends this thread's page.
TGet(t) ==
    /\ threads[t].pc = "get"
    /\ \E ok \in BOOLEAN :
         threads' = [threads EXCEPT ![t].pc = IF ok THEN "save" ELSE "end"]
    /\ UNCHANGED <<seqvars, record, mem>>

\* download(), line 70: _save_downloaded.
TSave(t) ==
    /\ threads[t].pc = "save"
    /\ LET url == Head(threads[t].todo).url
           r == _save_downloaded(mem[threads[t].inst], record, url)
       IN /\ record' = r.record
          /\ mem' = [mem EXCEPT ![threads[t].inst] = r.downloaded]
          /\ threads' = [threads EXCEPT
                           ![t].pc = "check",
                           ![t].todo = Tail(@),
                           ![t].saved = IF threads[t].readAbsent THEN @ \cup {url} ELSE @]
    /\ UNCHANGED seqvars

ConcNext ==
    \E t \in Threads :
        \/ TStart(t)
        \/ TSchedule(t)
        \/ TCheck(t)
        \/ TGet(t)
        \/ TSave(t)

ConcSpec == Init /\ [][ConcNext]_vars

\* ------------------------------------------- single calls of functions
\* Anchors per document in a single call.
MaxAnchors == 2

PureUrl(s, sp, n, e, q) == [dir |-> "P", stem |-> s, sep |-> sp, n |-> n, ext |-> e, q |-> q]

\* common_list.shtml, common_list_3.shtml (also with a query), common_list3.shtml,
\* page_3.shtml, Page2.html, page-2.html, p_1.html, index_1.html, index3.html,
\* INDEX_2.html, news_1.html
PureUrls ==
    { PureUrl("common_list", "_", 0, "shtml", ""),
      PureUrl("common_list", "_", 3, "shtml", ""),
      PureUrl("common_list", "_", 3, "shtml", "x"),
      PureUrl("common_list", "", 3, "shtml", ""),
      PureUrl("page", "_", 3, "shtml", ""),
      PureUrl("Page", "", 2, "html", ""),
      PureUrl("page", "-", 2, "html", ""),
      PureUrl("p", "_", 1, "html", ""),
      PureUrl("index", "_", 1, "html", ""),
      PureUrl("index", "", 3, "html", ""),
      PureUrl("INDEX", "_", 2, "html", ""),
      PureUrl("news", "_", 1, "html", "") }

PureAnchors ==
    { Anchor(PureUrl("news", "_", 2, "html", ""), <<"next">>, <<>>, ""),
      Anchor(PureUrl("news", "_", 2, "html", ""), <<"next">>, <<"btn", "Disabled">>, ""),
      Anchor(PureUrl("news", "_", 2, "html", ""), <<">">>, <<>>, "disabled"),
      Anchor(EmptyHref, <<"Next">>, <<>>, ""),
      Anchor(PureUrl("common_list", "_", 3, "shtml", ""), <<"last">>, <<>>, ""),
      Anchor(EmptyHref, <<"last">>, <<>>, ""),
      Anchor(PureUrl("a", "_", 0, "csv", ""), <<>>, <<>>, ""),
      Anchor(PureUrl("c", "_", 0, "XLSX", ""), <<"c", ":", "2024">>, <<>>, ""),
      Anchor(PureUrl("e", "_", 0, "xls", "v"), <<"e">>, <<>>, ""),
      Anchor(PureUrl("common_detail", "_", 1, "shtml", ""), <<"b">>, <<>>, ""),
      Anchor(PureUrl("d", "_", 0, "html", ""), <<"d">>, <<>>, ""),
      Anchor(PureUrl("page", "_", 2, "html", ""), <<"2">>, <<>>, ""),
      [Anchor(PureUrl("news", "_", 3, "html", ""), <<"3">>, <<>>, "") EXCEPT !.pager = TRUE] }

PureSoups == UNION {[1..m -> PureAnchors] : m \in 0..MaxAnchors}

PureNames ==
    { <<>>, <<"report">>, <<"a", ".", "csv">>, <<"a", ".", "xls">>, <<"a", ".", "xlsx">>,
      <<"a", ".", "XLS">>, <<"table", "csv">> }

PureFile == PureUrl("a", "_", 0, "csv", "")

PureRest == <<base_url, record, downloaded, pc, runvars, files, contents, cfiles, runs,
              faults, hist, threads, mem>>

PDetect ==
    /\ pure.op = "none"
    /\ \E soup \in PureSoups, url \in PureUrls, probe \in BOOLEAN :
         pure' = [PureIdle EXCEPT !.op = "detect", !.soup = soup, !.url = url,
                                  !.probe = probe,
                                  !.outMode = detect_pagination_mode(soup, url, probe)]
    /\ UNCHANGED PureRest

PIsLast ==
    /\ pure.op = "none"
    /\ \E soup \in PureSoups, url \in PureUrls, probe \in BOOLEAN,
          mode \in {"button", "url", "None"} :
         pure' = [PureIdle EXCEPT !.op = "is_last", !.soup = soup, !.url = url,
                                  !.probe = probe, !.mode = mode,
                                  !.outBool = is_last_page(soup, url, mode, probe)]
    /\ UNCHANGED PureRest

\* Lines 333-340 of run() on one page: is_last_page, then smart_next on the same
\* document, URL and mode, the probe answering the same both times.
PAdvance ==
    /\ pure.op = "none"
    /\ \E soup \in PureSoups, url \in PureUrls, probe \in BOOLEAN,
          mode \in {"button", "url", "None"} :
         pure' = [PureIdle EXCEPT !.op = "advance", !.soup = soup, !.url = url,
                                  !.probe = probe, !.mode = mode,
                                  !.outBool = is_last_page(soup, url, mode, probe),
                                  !.outUrl = smart_next(soup, url, mode, probe)]
    /\ UNCHANGED PureRest

PGenerate ==
    /\ pure.op = "none"
    /\ \E url \in PureUrls :
         pure' = [PureIdle EXCEPT !.op = "generate", !.url = url,
                                  !.outUrl = generate_next_url(url)]
    /\ UNCHANGED PureRest

PExtract ==
    /\ pure.op = "none"
    /\ \E soup \in PureSoups :
         pure' = [PureIdle EXCEPT !.op = "extract", !.soup = soup,
                                  !.url = PureUrl("common_list", "_", 0, "shtml", ""),
                                  !.outLinks = extract_links(soup,
                                      PureUrl("common_list", "_", 0, "shtml", ""))]
    /\ UNCHANGED PureRest

PDownload ==
    /\ pure.op = "none"
    /\ \E known \in BOOLEAN, name \in PureNames, outcome \in DownloadOutcomes :
         pure' = [PureIdle EXCEPT
                    !.op = "download", !.known = known, !.name = name,
                    !.url = PureFile, !.outcome = outcome,
                    !.outDl = download(IF known THEN {PureFile} ELSE {},
                                       IF known THEN <<PureFile>> ELSE <<>>,
                                       PureFile, name, outcome)]
    /\ UNCHANGED PureRest

PureNext == PDetect \/ PIsLast \/ PAdvance \/ PGenerate \/ PExtract \/ PDownload

\* One instance, constructed on an empty directory.
OneInstance ==
    /\ Init
    /\ base_url = Listing("A", 0)

PureSpec == OneInstance /\ [][PureNext]_vars

\* ------------------------------------- download calls on one directory
\* Lines of the record after which no further download is called.
MaxRecord == 3

\* a.csv, b.xls and a file whose URL holds a line separator.
StoreUrls ==
    { Url("S", "a", 0, "csv"), Url("S", "b", 0, "xls"),
      [Url("S", "c", 1, "csv") EXCEPT !.sep = LineSep] }

StoreNames == { <<"a", ".", "csv">>, <<"report">> }

StoreRest == <<base_url, pc, runvars, files, contents, cfiles, runs, faults, hist,
               threads, mem>>

\* download(url, name) on the instance, with any outcome of the network and the disk.
SDownload ==
    /\ Len(record) < MaxRecord
    /\ \E url \in StoreUrls, name \in StoreNames, outcome \in DownloadOutcomes :
         LET r == download(downloaded, record, url, name, outcome) IN
         /\ downloaded' = r.downloaded
         /\ record' = r.record
         /\ pure' = [PureIdle EXCEPT !.op = "download", !.url = url, !.name = name,
                                     !.outcome = outcome, !.known = url \in downloaded,
                                     !.outDl = r]
    /\ UNCHANGED StoreRest

\* __init__ of a new instance on the same directory: _load_downloaded().
SConstruct ==
    /\ downloaded' = _load_downloaded(record)
    /\ pure' = [PureIdle EXCEPT !.op = "construct"]
    /\ UNCHANGED <<record, StoreRest>>

StoreNext == SDownload \/ SConstruct

StoreSpec == OneInstance /\ [][StoreNext]_vars

\* ------------------------------------------------------------ the claims

\* C1: a second unbounded run against the record a first complete, fault-free
\* unbounded run wrote transfers no file.
C1_Idempotent == hist.firstComplete => hist.transfers = {}

\* C2: download never issues a request for a url that is in the DownloadedSet.
C2_NeverRefetched == hist.requestedKnown = {}

\* C3: the DownloadedSet and the durable record change only in a download()
\* call that wrote the whole stream and did not raise, and then by exactly its
\* url; a call that raised leaves both unchanged; a call for a url that is not
\* in the set (so also one that failed before) issues the request.
C3_RecordedOnlyAfterStream ==
    [][ LET c == hist'.call
            called == c.k # hist.call.k
        IN /\ (called /\ c.raised) => UNCHANGED <<downloaded, record>>
           /\ (downloaded' # downloaded \/ record' # record) =>
                 /\ called /\ c.stored /\ ~c.raised
                 /\ downloaded' = downloaded \cup {c.url}
                 /\ record' = Append(record, c.url)
           /\ (called /\ ~c.known) => c.requested
           /\ (called /\ c.raised) => (c.url \in downloaded' <=> c.known) ]_vars

\* A url whose download failed in the previous run is transferred in this one.
C3_Witness ==
    /\ hist.call.url \in hist.retried
    /\ ~hist.call.known /\ hist.call.stored /\ ~hist.call.raised
    /\ hist.call.url \in downloaded

\* C4: when the run has ended, every file link of every listing page that was
\* fetched has been passed to download() and every content link of it has been
\* fetched, whatever download raised.
C4_FailureContained ==
    pc = "done" =>
        \A p \in hist.fetchedOk :
            /\ \A i \in DOMAIN FileLinks(Doc(p), p) : FileLinks(Doc(p), p)[i].url \in hist.attempted
            /\ ContentLinks(Doc(p), p) \subseteq hist.contentTried

\* C5: no listing URL is fetched as a listing page twice in a run, and a
\* successor that is in VisitedSet ends the run at the head of the loop with
\* no fetch and no download.
C5_LoopGuard ==
    /\ [](hist.refetched = {})
    /\ [][ (pc = "loop" /\ current \in visited) =>
              /\ pc' = "done"
              /\ hist'.endReason = "loop_guard"
              /\ hist'.listingFetches = hist.listingFetches
              /\ hist'.attempted = hist.attempted
              /\ UNCHANGED <<record, downloaded>> ]_vars

\* The next anchor of a page led back to a visited page and the run ended there.
C5_Witness ==
    /\ pc = "done" /\ hist.endReason = "loop_guard"
    /\ current \in visited /\ hist.listingFetches = Cardinality(visited)
    /\ hist.listingFetches >= 2

\* C6: every run that started reaches Done.
C6_Terminates == (pc = "loop") ~> (pc = "done")

\* C7: detect_pagination_mode is called at most once per run, on the first
\* page, and from then on the mode is its first result.
C7_ModeFixed ==
    /\ hist.detects <= 1
    /\ hist.detectedOn \in {NoneUrl, base_url}
    /\ hist.detects = 0 => pagination_mode = "None" /\ hist.firstMode = "unset"
    /\ hist.detects > 0 => pagination_mode = hist.firstMode

\* A later page has been fetched, and an error recovered from, with the mode
\* of the first page.
C7_Witness ==
    /\ pc = "files" /\ page >= 3 /\ hist.detects = 1
    /\ hist.recovered # "none"
    /\ pagination_mode = hist.firstMode /\ current # base_url

\* C8: the loop continues after an exception only when the listing fetch raised.
C8_RecoveryOnlyForFetch == hist.recovered \in {"none", "fetch"}

\* C9: no two threads both read a url as not yet downloaded and both
\* transferred it and appended it to the record.
C9_MutualExclusion ==
    \A t1 \in Threads : \A t2 \in Threads \ {t1} :
        threads[t1].saved \cap threads[t2].saved = {}

\* C10: a run with a ceiling c fetches at most c listing pages.
C10_Ceiling == max_pages # NoCeiling => hist.listingFetches <= max_pages

\* An anchor with next-page text that neither its class nor its onclick disables.
HasEnabledNextAnchor(soup) ==
    \E i \in DOMAIN soup :
        /\ \E k \in DOMAIN soup[i].text : soup[i].text[k] \in NextTexts
        /\ ~IsDisabled(soup[i])

\* Rule 3 of detection: a pagination link of the document has a recognized shape.
HasPatternedPageLink(soup, url) ==
    \E l \in find_all_pagination_links(soup, url) : _has_url_pagination_pattern(l)

\* C11: detect_pagination_mode answers "button" whenever the document has an
\* enabled next anchor, whatever the URL and the probe say; it answers "url"
\* without a patterned pagination link only when the URL has a recognized shape,
\* a successor is synthesized and the probe succeeds; it answers None when no
\* rule matches.
C11_ModePriority ==
    pure.op = "detect" =>
        /\ HasEnabledNextAnchor(pure.soup) => pure.outMode = "button"
        /\ (pure.outMode = "url" /\ ~HasPatternedPageLink(pure.soup, pure.url)) =>
               /\ _has_url_pagination_pattern(pure.url)
               /\ generate_next_url(pure.url) # NoneUrl
               /\ pure.probe
        /\ pure.outMode = "button" => HasEnabledNextAnchor(pure.soup)
        /\ ( /\ ~HasEnabledNextAnchor(pure.soup)
             /\ ~(_has_url_pagination_pattern(pure.url)
                  /\ generate_next_url(pure.url) # NoneUrl /\ pure.probe)
             /\ ~HasPatternedPageLink(pure.soup, pure.url) ) => pure.outMode = "None"

\* An enabled next anchor on common_list_3.shtml whose successor exists.
C11_Witness ==
    /\ pure.op = "detect"
    /\ HasEnabledNextAnchor(pure.soup)
    /\ pure.url = PureUrl("common_list", "_", 3, "shtml", "")
    /\ pure.probe
    /\ pure.outMode = "button"

\* The path of a URL: the URL without its query.
Path(url) == [url EXCEPT !.q = ""]

\* C12: is_last_page answers true in button mode exactly when no enabled next
\* anchor is present or some last-page anchor resolves, against the current URL,
\* to a URL with the current URL's path; in url mode exactly when no successor is
\* synthesized or the probe fails; with no mode always.
C12_TerminalIff ==
    pure.op = "is_last" =>
        (pure.outBool <=>
            IF pure.mode = "button"
            THEN \/ ~HasEnabledNextAnchor(pure.soup)
                 \/ \E i \in DOMAIN pure.soup :
                       /\ HasText(pure.soup[i].text, LastPageTexts)
                       /\ Path(urljoin(pure.url, pure.soup[i].href)) = Path(pure.url)
            ELSE IF pure.mode = "url"
            THEN generate_next_url(pure.url) = NoneUrl \/ ~pure.probe
            ELSE TRUE)

\* The URL shapes a successor is synthesized from: common_list.shtml,
\* common_list_N.shtml, and page, p or index followed by a number.
NumberedShape(url) ==
    \/ url.stem = "common_list" /\ url.sep = "_" /\ url.n > 0 /\ url.ext = "shtml"
    \/ Lower(url.stem) \in {"page", "p", "index"} /\ url.n > 0 /\ url.sep \in RegexSeps

\* C13: generate_next_url maps common_list.shtml to common_list_2.shtml, maps a
\* URL of a numbered shape to the same URL with the number raised by one and
\* everything else preserved, and gives no successor for any other URL.
C13_Successor ==
    pure.op = "generate" =>
        IF pure.url.stem = "common_list" /\ pure.url.n = 0 /\ pure.url.ext = "shtml"
        THEN pure.outUrl = [pure.url EXCEPT !.n = 2]
        ELSE IF NumberedShape(pure.url)
        THEN pure.outUrl = [pure.url EXCEPT !.n = @ + 1]
        ELSE pure.outUrl = NoneUrl

\* The path of the target ends, in any case, in .csv, .xls or .xlsx.
TargetIsFile(t) == Lower(Path(t).ext) \in DataExts

\* The target contains common_detail or ends in .shtml.
TargetIsContent(t) == t.stem = "common_detail" \/ (t.ext = "shtml" /\ t.q = "")

\* C14: extract_links puts an anchor with a target among the file links exactly
\* when the target's path ends in a data-file extension, among the content links
\* exactly when it is no file link and its target contains common_detail or ends
\* in .shtml, and never in both.
C14_Classification ==
    pure.op = "extract" =>
        \A i \in DOMAIN pure.soup :
            pure.soup[i].href # EmptyHref =>
                LET t == urljoin(pure.url, pure.soup[i].href)
                    inFiles == \E k \in DOMAIN pure.outLinks.files :
                                   pure.outLinks.files[k].url = t
                    inContents == t \in pure.outLinks.contents
                IN /\ inFiles <=> TargetIsFile(t)
                   /\ inContents <=> (~TargetIsFile(t) /\ TargetIsContent(t))
                   /\ ~(inFiles /\ inContents)

\* The extension of name, the part from its last dot, is .csv, .xls or .xlsx.
HasDataExtension(name) ==
    /\ Len(name) >= 2
    /\ name[Len(name) - 1] = "."
    /\ name[Len(name)] \in DataExts

\* C15: download(url, name) does nothing (no request, no file, no record line,
\* no exception) exactly when url is recorded and the extension of name is a
\* data-file extension; in every other case it issues the request.
C15_NoOpExactly ==
    pure.op = "download" =>
        LET dl == IF pure.known THEN {pure.url} ELSE {}
            noop == /\ ~pure.outDl.requested /\ ~pure.outDl.stored /\ ~pure.outDl.raised
                    /\ pure.outDl.downloaded = dl
                    /\ Len(pure.outDl.record) = Cardinality(dl)
        IN /\ noop <=> (pure.known /\ HasDataExtension(pure.name))
           /\ ~noop => pure.outDl.requested

\* C16: a content page that raises never takes the listing page to the handler
\* of line 349; no content link of the listing page is dropped while its content
\* pages are processed, and when terminal detection ends the run every content
\* page of the last listing page has been tried.
C16_ContentIsolation ==
    /\ hist.cause # "content"
    /\ pc \in {"contents", "cfiles"} =>
          ContentLinks(Doc(current), current) \subseteq contents \cup hist.contentTried
    /\ (pc = "done" /\ hist.endReason \in {"terminal", "single"}) =>
          ContentLinks(Doc(current), current) \subseteq hist.contentTried

\* A content page raised, a later content page of the same listing page was
\* fetched, and the loop advanced to the next listing page.
C16_Witness ==
    /\ hist.passedAfterFailure
    /\ hist.afterFailure # {}
    /\ hist.skipped # {}
    /\ pc = "loop"
    /\ page > 1

C18_NoSilentLoss == ~hist.silent

\* C19: the loop fetches no content page and no page linked from a content page
\* as a listing page; every content page fetched is linked from a listing page
\* that was fetched; no page linked only from a content page is fetched; the
\* pagination oracle is evaluated on fetched listing pages only.
C19_OneLevel ==
    /\ hist.tried \cap (DetailUrls \cup AnnexUrls) = {}
    /\ hist.contentTried \subseteq UNION {ContentLinks(Doc(p), p) : p \in hist.fetchedOk}
    /\ AnnexUrls \cap hist.contentTried = {}
    /\ hist.paginated \subseteq hist.fetchedOk
    /\ hist.paginated \cap (DetailUrls \cup AnnexUrls) = {}

\* A content page that holds a content link was fetched and the run has ended.
C19_Witness ==
    /\ pc = "done"
    /\ \E c \in hist.contentTried \ hist.skipped : ContentLinks(Doc(c), c) # {}
    /\ hist.paginated # {}

\* C20: the in-memory set of an instance equals the set of lines of the durable
\* record, so that a new instance loading the record starts with the same set.
C20_ConsistentWithRecord == downloaded = _load_downloaded(record)

\* C21: on the same document, URL, mode and probe answer, a page that
\* is_last_page judges non-terminal gets a successor from smart_next, and a
\* successor in url mode has passed the probe.
C21_TerminalAgreesWithNext ==
    pure.op = "advance" =>
        /\ ~pure.outBool => pure.outUrl # NoneUrl
        /\ (pure.mode = "url" /\ pure.outUrl # NoneUrl) => pure.probe

\* C22: at the head of the loop the page number is the number of URLs in
\* visited plus one, and when run() has ended the page number it reports is the
\* number of listing pages the run processed.
C22_PageCounter ==
    /\ (pc = "loop" /\ page < MaxPage) => page = hist.visitedCount + 1
    /\ (pc = "done" /\ page < MaxPage) => page = hist.visitedCount

====
